---- MODULE Spec2Model ----
(***************************************************************************)
(* Model of web_tools.Twitter_Session: the paginated fetch loops           *)
(* (get_user_tweets, get_user_following, get_user_followers,               *)
(* get_string_query), get_user_profile, the rate-limit snapshot            *)
(* (return_server_limits), persistence (df_to_db) and the snapshot         *)
(* orchestration (get_user_snapshot).                                      *)
(*                                                                         *)
(* One session runs one top-level fetch (or one get_user_snapshot) and     *)
(* then persists the table it got back up to MaxCaptures times.  The       *)
(* server answers every request with any response of Responses; it serves  *)
(* at most MaxPages pages per call.  Every response carries the            *)
(* rate-limit and transaction-id headers.  Time advances by one unit       *)
(* across each blocking I/O (a request, a database write) and by           *)
(* SleepSeconds across a sleep; datetime.now() reads the clock.            *)
(***************************************************************************)
EXTENDS Integers, Sequences, FiniteSets, TLC

\* ------------------------------------------------------------------ bounds
MaxPages    == 2   \* largest explicit page cap; pages the server serves per call
MaxPageSize == 2   \* records per page: 0..MaxPageSize
MaxCaptures == 2   \* df_to_db calls made on the table a fetch returned
MaxLimit    == 50  \* x-rate-limit-limit values 0..MaxLimit (SpecLimits)

\* ------------------------------------------------- constants of the program
SleepSeconds       == 59     \* time.sleep(59)
DefaultTweetPages  == 1500   \* get_user_tweets: pages = 1500
DefaultFollowPages == 15     \* get_user_following / get_user_followers: pages = 15
DefaultQueryPages  == 1      \* get_string_query: pages = 1

\* ------------------------------------------- IEEE-754 double arithmetic
\* int(float(remaining) / float(limit) * 100): a correctly rounded division,
\* a correctly rounded multiplication, then truncation.  A double's 53-bit
\* significand is held as a leading digit and four 13-bit limbs; the value of
\* [m, k, j] is m * 2^(j - k - 52).
LimbBits == 13

RECURSIVE Pow2(_)
Pow2(n) == IF n = 0 THEN 1 ELSE 2 * Pow2(n - 1)

LimbBase == Pow2(LimbBits)

RECURSIVE ShiftUp(_, _)
ShiftUp(a, b) == IF a >= b THEN 0 ELSE 1 + ShiftUp(2 * a, b)

RECURSIVE ShiftDown(_, _)
ShiftDown(a, b) == IF 2 * b > a THEN 0 ELSE 1 + ShiftDown(a, 2 * b)

\* propagate carries through the five digits, most significant first
Carry(t) ==
    LET s5 == t[5]
        s4 == t[4] + (s5 \div LimbBase)
        s3 == t[3] + (s4 \div LimbBase)
        s2 == t[2] + (s3 \div LimbBase)
        s1 == t[1] + (s2 \div LimbBase)
    IN  <<s1, s2 % LimbBase, s3 % LimbBase, s4 % LimbBase, s5 % LimbBase>>

\* a / b for integers a, b > 0, rounded to nearest, ties to even
FloatDiv(a, b) ==
    LET k   == ShiftUp(a, b)
        j   == ShiftDown(a, b)
        num == a * Pow2(k)
        den == b * Pow2(j)
        r0  == num - den
        q1  == (r0 * LimbBase) \div den
        r1  == (r0 * LimbBase) % den
        q2  == (r1 * LimbBase) \div den
        r2  == (r1 * LimbBase) % den
        q3  == (r2 * LimbBase) \div den
        r3  == (r2 * LimbBase) % den
        q4  == (r3 * LimbBase) \div den
        r4  == (r3 * LimbBase) % den
        up  == IF 2 * r4 > den \/ (2 * r4 = den /\ q4 % 2 = 1) THEN 1 ELSE 0
    IN  [m |-> Carry(<<1, q1, q2, q3, q4 + up>>), k |-> k, j |-> j]

\* x * 100.0, rounded to nearest, ties to even
FloatMul100(x) ==
    LET p    == Carry(<<100 * x.m[1], 100 * x.m[2], 100 * x.m[3],
                        100 * x.m[4], 100 * x.m[5]>>)
        d    == IF p[1] < 128 THEN 6 ELSE 7
        low  == p[5] % Pow2(d)
        half == Pow2(d - 1)
        lsb  == (p[5] \div Pow2(d)) % 2
        up   == IF low > half \/ (low = half /\ lsb = 1) THEN 1 ELSE 0
    IN  [x EXCEPT !.m = Carry(<<p[1], p[2], p[3], p[4],
                                p[5] - low + up * Pow2(d)>>)]

\* int(x) for x >= 0: truncation
FloatToInt(x) ==
    IF x.j = 0 THEN x.m[1] \div Pow2(x.k)
    ELSE x.m[1] * Pow2(x.j) + (x.m[2] \div Pow2(LimbBits - x.j))

\* percent_remaining = int(float(remaining) / float(limit) * 100), limit > 0
percent_remaining(remaining, limit) ==
    IF remaining = 0 THEN 0
    ELSE FloatToInt(FloatMul100(FloatDiv(remaining, limit)))

\* ------------------------------------------------------------ responses
\* A response body: the keys the code reads (title, data, errors,
\* meta.next_token), and the two rate-limit headers.  A hard usage-cap
\* response is an error object: a title, and no data, errors or meta.
Record(n, p) == <<n, p>>

\* the records of the n-th page served in a call
PageData(n, size) == [p \in 1..size |-> Record(n, p)]

HeaderPairs == {<<0, 0>>, <<1, 2>>}

Bodies(n) ==
    {[title |-> "UsageCapExceeded", hasData |-> FALSE, data |-> <<>>,
      next_token |-> FALSE, errors |-> FALSE]}
    \cup {[title |-> "", hasData |-> TRUE, data |-> PageData(n, s),
           next_token |-> t, errors |-> FALSE] :
              s \in 0..MaxPageSize, t \in BOOLEAN}
    \cup {[title |-> "", hasData |-> FALSE, data |-> <<>>,
           next_token |-> t, errors |-> FALSE] : t \in BOOLEAN}
    \cup {[title |-> "", hasData |-> FALSE, data |-> <<>>,
           next_token |-> FALSE, errors |-> TRUE]}

WithHeaders(b, h) ==
    [title |-> b.title, hasData |-> b.hasData, data |-> b.data,
     next_token |-> b.next_token, errors |-> b.errors,
     remaining |-> h[1], limit |-> h[2]]

Responses(n) == {WithHeaders(b, h) : b \in Bodies(n), h \in HeaderPairs}

\* self.response = "" after construction
NoResponse ==
    [title |-> "NoResponse", hasData |-> FALSE, data |-> <<>>,
     next_token |-> FALSE, errors |-> FALSE, remaining |-> 0, limit |-> 0]

\* ----------------------------------------------------------- data frames
\* A frame is its rows in order; a row is its index label and its record.
\* pandas.DataFrame(list): a RangeIndex 0..n-1
DataFrame(data) == [p \in 1..Len(data) |-> [index |-> p - 1, rec |-> data[p]]]

\* faulty variant: the new page is put in front of the collected rows
ConcatReversed(df1, df2) == df2 \o df1

\* pandas.concat([df, df2], axis=0): rows of df, then rows of df2, labels kept
concat(df1, df2) == df1 \o df2

\* df.reset_index(): the same rows, relabelled 0..n-1
reset_index(frame) == [p \in 1..Len(frame) |-> [frame[p] EXCEPT !.index = p - 1]]

Recs(rows) == [p \in 1..Len(rows) |-> rows[p].rec]

ErrorRec == Record(0, 1)   \* a row of response.json()["errors"]
RawRec   == Record(0, 2)   \* the one row of DataFrame([response.json()])

NoTable == [kind |-> "none", rows |-> <<>>, cols |-> {}, ts |-> 0]
Table(kind, rows) == [kind |-> kind, rows |-> rows, cols |-> {}, ts |-> 0]

\* --------------------------------------------------- rate-limit snapshot
Endpoints == {"user_profile", "user_tweets", "user_following",
              "user_followers", "query"}

NoSnap == [remaining |-> 0, limit |-> 0, percent_remaining |-> 0,
           checked_at |-> -1]

\* faulty variant: a zero limit is not noticed
DivisionNeverRaises(limit) == FALSE

\* float(remaining) / float(limit) raises ZeroDivisionError
DivisionByZero(limit) == limit = 0

\* return_server_limits() on response resp; the dictionary it returns when
\* the division does not raise (limit_reset and limit_delta, two
\* time-of-day strings, are left out)
return_server_limits(resp) ==
    [remaining |-> resp.remaining, limit |-> resp.limit,
     percent_remaining |-> percent_remaining(resp.remaining, resp.limit),
     checked_at |-> -1]

\* faulty variant: the snapshot is computed but not stored
LogSkipped(log, key, resp, now) == log

\* self.limit_log[key] = self.return_server_limits()
\* self.limit_log[key]["checked_at"] = datetime.datetime.now()
LogLimits(log, key, resp, now) ==
    [log EXCEPT ![key] = [return_server_limits(resp) EXCEPT !.checked_at = now]]

\* ---------------------------------------------------------- persistence
Tables == {"profile", "tweets", "following", "followers", "query"}

\* all the orders the positions of S can be put in
RECURSIVE Orderings(_)
Orderings(S) ==
    IF S = {} THEN {<<>>}
    ELSE UNION {{<<x>> \o t : t \in Orderings(S \ {x})} : x \in S}

\* the rows labelled l or more, in ascending label order
RECURSIVE SortFrom(_, _)
SortFrom(rows, l) ==
    IF \A p \in 1..Len(rows) : rows[p].index < l THEN {<<>>}
    ELSE LET group == {p \in 1..Len(rows) : rows[p].index = l}
         IN  {[q \in 1..Len(o) |-> rows[o[q]]] \o rest :
                 o \in Orderings(group), rest \in SortFrom(rows, l + 1)}

\* data.sort_index(): the rows in ascending label order; the default sort
\* is not stable, so rows with equal labels come out in any order
sort_index(rows) == SortFrom(rows, 0)

\* data.to_sql(name, if_exists="append", index=False)
to_sql(store, name, rows, ts) ==
    [store EXCEPT ![name] =
        @ \o [p \in 1..Len(rows) |-> [rec |-> rows[p].rec, capture_timestamp |-> ts]]]

\* data.insert(0, "query_term", ...) raises ValueError on a frame that has
\* the column already; the capture_timestamp insert is retried after a drop
InsertRaises(data, type) == type = "query" /\ "query_term" \in data.cols

\* df_to_db(id, data, type): the outcomes of one call at time now.  data is
\* the caller's frame, which the inserts change in place; sorted is the
\* local frame after sort_index, the one written.
df_to_db(store, data, type, now) ==
    IF type \notin Tables
    THEN {[raised |-> TRUE, exc |-> "ValueError", data |-> data, db |-> store,
           sorted |-> <<>>]}
    ELSE IF InsertRaises(data, type)
    THEN {[raised |-> TRUE, exc |-> "ValueError", data |-> data, db |-> store,
           sorted |-> <<>>]}
    ELSE LET d == [data EXCEPT
                     !.cols = @ \cup {"capture_timestamp"}
                                \cup (IF type = "query" THEN {"query_term"} ELSE {}),
                     !.ts = now]
         IN  {[raised |-> FALSE, exc |-> "", data |-> d,
               db |-> to_sql(store, type, rows, now), sorted |-> rows] :
                  rows \in sort_index(d.rows)}

\* ----------------------------------------------------------------- state
VARIABLES
    pc,         \* position in the running call: ready, call, loop, post, done
    fn,         \* the fetch function running or last run
    pages,      \* its page cap
    timer,      \* its throttle flag
    i,          \* the loop index
    df,         \* the rows collected so far
    response,   \* self.response
    limit_log,  \* self.limit_log
    query_log,  \* self.query_log
    clock,      \* wall-clock time
    result,     \* how the last fetch call ended
    limits,     \* what a direct call of return_server_limits returned
    held,       \* the frame the top-level caller holds
    db,         \* the persisted tables of the store
    snap,       \* get_user_snapshot: its position and flags
    pages_log,  \* history: the responses received in this call, in order
    events,     \* history: the requests and sleeps of this call, in order
    log0,       \* history: limit_log when this call began
    captures,   \* history: the df_to_db calls made, in order
    calls       \* history: the fetch calls begun, in order

vars == <<pc, fn, pages, timer, i, df, response, limit_log, query_log, clock,
          result, limits, held, db, snap, pages_log, events, log0, captures, calls>>

NoResult == [status |-> "none", exc |-> "", table |-> NoTable]
Returned(t) == [status |-> "returned", exc |-> "", table |-> t]
Raised(e) == [status |-> "raised", exc |-> e, table |-> NoTable]

NoSnapshot == [pc |-> "none", followers |-> FALSE, following |-> FALSE, exc |-> ""]

Init ==
    /\ pc = "ready"
    /\ fn = ""
    /\ pages = 0
    /\ timer = FALSE
    /\ i = 0
    /\ df = <<>>
    /\ response = NoResponse
    /\ limit_log = [e \in Endpoints |-> NoSnap]
    /\ query_log = <<>>
    /\ clock = 0
    /\ result = NoResult
    /\ limits = NoSnap
    /\ held = NoTable
    /\ db = [t \in Tables |-> <<>>]
    /\ snap = NoSnapshot
    /\ pages_log = <<>>
    /\ events = <<>>
    /\ log0 = [e \in Endpoints |-> NoSnap]
    /\ captures = <<>>
    /\ calls = <<>>

\* the optional keyword arguments: <<>> is an argument not given
Kwargs == [pages : {<<>>} \cup {<<n>> : n \in 1..MaxPages},
           timer : {<<>>, <<TRUE>>}]
NoKwargs == [pages |-> <<>>, timer |-> <<>>]

DefaultPages(f) ==
    CASE f = "get_user_tweets"    -> DefaultTweetPages
      [] f = "get_user_following" -> DefaultFollowPages
      [] f = "get_user_followers" -> DefaultFollowPages
      [] f = "get_string_query"   -> DefaultQueryPages
      [] OTHER                    -> 1

\* the frame of a fetch call that begins
Begin(f, kw) ==
    /\ fn' = f
    /\ pages' = IF kw.pages # <<>> THEN kw.pages[1] ELSE DefaultPages(f)
    /\ timer' = (kw.timer = <<TRUE>>)
    /\ i' = 0
    /\ df' = <<>>
    /\ pc' = IF f = "get_user_profile" THEN "call" ELSE "loop"
    /\ result' = NoResult
    /\ pages_log' = <<>>
    /\ events' = <<>>
    /\ log0' = limit_log
    /\ calls' = Append(calls, f)

\* the responses the server may give to the next request of this call: it
\* serves at most MaxPages pages, so the last one carries no cursor.  Within
\* get_user_snapshot the server is a healthy one: valid rate-limit headers,
\* no errors array, full pages.
InSnapshot == snap.pc # "none"

Serve ==
    LET n == Len(pages_log) + 1
    IN  {r \in Responses(n) :
           /\ n >= MaxPages => ~r.next_token
           /\ fn = "get_user_profile" =>
                 ~r.next_token /\ (r.hasData => Len(r.data) = 1)
           /\ InSnapshot =>
                 r.limit > 0 /\ ~r.errors /\ (r.hasData => Len(r.data) = 1)}

\* self.get_url(url): the request is sent and the response kept
get_url(r) ==
    /\ response' = r
    /\ pages_log' = Append(pages_log, r)

\* faulty variant: the throttle flag is not honoured
ElapseUnthrottled(pre, req, post) ==
    /\ events' = events \o (IF req THEN <<"request">> ELSE <<>>)
    /\ clock' = clock + (IF req THEN 1 ELSE 0)

\* the time and the history of a step that sends a request (req) and
\* sleeps before it (pre) or after it (post)
Elapse(pre, req, post) ==
    /\ events' = events \o (IF pre THEN <<"sleep">> ELSE <<>>)
                        \o (IF req THEN <<"request">> ELSE <<>>)
                        \o (IF post THEN <<"sleep">> ELSE <<>>)
    /\ clock' = clock + (IF pre THEN SleepSeconds ELSE 0)
                      + (IF req THEN 1 ELSE 0)
                      + (IF post THEN SleepSeconds ELSE 0)

\* the call ends: it returns table t to its caller, or raises e
Return(t) ==
    /\ pc' = "done"
    /\ result' = Returned(t)
    /\ held' = IF InSnapshot THEN held ELSE t

Raise(e) ==
    /\ pc' = "done"
    /\ result' = Raised(e)
    /\ held' = held

\* ------------------------------------------------ the top-level fetch calls
Loops == {"get_user_tweets", "get_user_following", "get_user_followers",
          "get_string_query"}

\* a script calls one fetch function on a fresh session
Call ==
    /\ pc = "ready"
    /\ \E f \in Loops \cup {"get_user_profile"} : \E kw \in Kwargs :
          /\ f = "get_user_profile" => kw.pages = <<>>
          /\ Begin(f, kw)
    /\ UNCHANGED <<limits, response, limit_log, query_log, clock, held, db, snap, captures>>

\* ------------------------------------------------------- get_user_profile
get_user_profile ==
    /\ pc = "call" /\ fn = "get_user_profile"
    /\ \E r \in Serve :
          /\ get_url(r)
          /\ Elapse(timer, TRUE, FALSE)
          /\ IF DivisionByZero(r.limit)
             THEN /\ Raise("ZeroDivisionError")
                  /\ limit_log' = limit_log
             ELSE /\ limit_log' = LogLimits(limit_log, "user_profile", r, clock')
                  /\ IF r.hasData
                     THEN Return(Table("data", reset_index(DataFrame(r.data))))
                     ELSE IF r.errors
                     THEN Return(Table("errors", DataFrame(<<ErrorRec>>)))
                     ELSE Raise("KeyError")
    /\ UNCHANGED <<limits, fn, pages, timer, i, df, query_log, db, snap, log0, captures, calls>>

\* ----------------------------------------------------------- the fetch loops
\* faulty variant: the usage cap is not looked for
UsageCapIgnored(r) == FALSE

\* self.response.json().get("title") ... == "UsageCapExceeded"
UsageCapExceeded(r) == r.title = "UsageCapExceeded"

\* faulty variant: a cursor is taken to be there
CursorAssumed(r) == TRUE

\* self.response.json()["meta"]["next_token"] does not raise KeyError
HasCursor(r) == r.next_token

\* the loop goes round again, or range(pages) is exhausted
Continue ==
    /\ i' = i + 1
    /\ pc' = IF i + 1 < pages THEN "loop" ELSE "post"
    /\ UNCHANGED <<result, held>>

\* break
Break ==
    /\ i' = i
    /\ pc' = "post"
    /\ UNCHANGED <<result, held>>

\* one iteration of `for i in range(pages)` in get_user_tweets
get_user_tweets_loop ==
    /\ pc = "loop" /\ fn = "get_user_tweets"
    /\ IF i = 0
       THEN \E r \in Serve :
               /\ get_url(r)
               /\ IF UsageCapExceeded(r)
                  THEN /\ Raise("UsageCapExceeded")
                       /\ Elapse(FALSE, TRUE, FALSE)
                       /\ UNCHANGED <<i, df>>
                  ELSE /\ df' = IF r.hasData /\ r.data # <<>>
                                THEN DataFrame(r.data) ELSE df
                       /\ Elapse(FALSE, TRUE, timer)
                       /\ Continue
       ELSE IF ~HasCursor(response)
       THEN /\ Break
            /\ Elapse(FALSE, FALSE, FALSE)
            /\ UNCHANGED <<response, pages_log, df>>
       ELSE \E r \in Serve :
               /\ get_url(r)
               /\ IF ~r.hasData
                  THEN /\ Break
                       /\ Elapse(FALSE, TRUE, FALSE)
                       /\ df' = df
                  ELSE /\ df' = concat(df, DataFrame(r.data))
                       /\ Elapse(FALSE, TRUE, timer)
                       /\ Continue
    /\ UNCHANGED <<limits, fn, pages, timer, limit_log, query_log, db, snap, log0,
                   captures, calls>>

\* after the loop of get_user_tweets: the index is reset and the metrics
\* expanded; df["public_metrics"] raises KeyError on a frame without rows,
\* and the errors of the last response, or its body, are returned instead
get_user_tweets_post ==
    /\ pc = "post" /\ fn = "get_user_tweets"
    /\ IF DivisionByZero(response.limit)
       THEN /\ Raise("ZeroDivisionError")
            /\ limit_log' = limit_log
       ELSE /\ limit_log' = LogLimits(limit_log, "user_tweets", response, clock)
            /\ IF df # <<>>
               THEN Return(Table("data", reset_index(df)))
               ELSE IF response.errors
               THEN Return(Table("errors", DataFrame(<<ErrorRec>>)))
               ELSE Return(Table("raw", DataFrame(<<RawRec>>)))
    /\ UNCHANGED <<limits, fn, pages, timer, i, df, response, query_log, clock, db, snap,
                   pages_log, events, log0, captures, calls>>

LogKey(f) ==
    CASE f = "get_user_following" -> "user_following"
      [] f = "get_user_followers" -> "user_followers"
      [] f = "get_user_tweets"    -> "user_tweets"
      [] f = "get_string_query"   -> "query"
      [] OTHER                    -> "user_profile"

\* one iteration of the loop of get_user_following / get_user_followers
RelationLoop(f) ==
    /\ pc = "loop" /\ fn = f
    /\ IF i = 0
       THEN \E r \in Serve :
               /\ get_url(r)
               /\ IF ~r.hasData
                  THEN /\ Raise("KeyError")
                       /\ Elapse(FALSE, TRUE, FALSE)
                       /\ UNCHANGED <<i, df>>
                  ELSE /\ df' = DataFrame(r.data)
                       /\ Elapse(FALSE, TRUE, timer)
                       /\ Continue
       ELSE IF ~HasCursor(response)
       THEN /\ Break
            /\ Elapse(FALSE, FALSE, FALSE)
            /\ UNCHANGED <<response, pages_log, df>>
       ELSE \E r \in Serve :
               /\ get_url(r)
               /\ IF ~r.hasData
                  THEN /\ Break
                       /\ Elapse(FALSE, TRUE, FALSE)
                       /\ df' = df
                  ELSE /\ df' = concat(df, DataFrame(r.data))
                       /\ Elapse(FALSE, TRUE, timer)
                       /\ Continue
    /\ UNCHANGED <<limits, fn, pages, timer, limit_log, query_log, db, snap, log0,
                   captures, calls>>

\* after the loop: the limits are logged and df is returned as collected
RelationPost(f) ==
    /\ pc = "post" /\ fn = f
    /\ IF DivisionByZero(response.limit)
       THEN /\ Raise("ZeroDivisionError")
            /\ limit_log' = limit_log
       ELSE /\ limit_log' = LogLimits(limit_log, LogKey(f), response, clock)
            /\ Return(Table("data", df))
    /\ UNCHANGED <<limits, fn, pages, timer, i, df, response, query_log, clock, db, snap,
                   pages_log, events, log0, captures, calls>>

get_user_following_loop == RelationLoop("get_user_following")
get_user_following_post == RelationPost("get_user_following")
get_user_followers_loop == RelationLoop("get_user_followers")
get_user_followers_post == RelationPost("get_user_followers")

\* one iteration of the loop of get_string_query: no try, no sleep
get_string_query_loop ==
    /\ pc = "loop" /\ fn = "get_string_query"
    /\ IF i > 0 /\ ~HasCursor(response)
       THEN /\ Raise("KeyError")
            /\ Elapse(FALSE, FALSE, FALSE)
            /\ UNCHANGED <<i, df, response, pages_log, limit_log>>
       ELSE \E r \in Serve :
               /\ get_url(r)
               /\ Elapse(FALSE, TRUE, FALSE)
               /\ IF DivisionByZero(r.limit)
                  THEN /\ Raise("ZeroDivisionError")
                       /\ UNCHANGED <<i, df, limit_log>>
                  ELSE /\ limit_log' = LogLimits(limit_log, "query", r, clock')
                       /\ IF ~r.hasData
                          THEN /\ Raise("KeyError")
                               /\ UNCHANGED <<i, df>>
                          ELSE /\ df' = IF i = 0 THEN DataFrame(r.data)
                                        ELSE concat(df, DataFrame(r.data))
                               /\ Continue
    /\ UNCHANGED <<limits, fn, pages, timer, query_log, db, snap, log0, captures, calls>>

\* after the loop: the query is logged and the frame returned, index reset
get_string_query_post ==
    /\ pc = "post" /\ fn = "get_string_query"
    /\ query_log' = Append(query_log, [timestamp |-> clock])
    /\ Return(Table("data", reset_index(df)))
    /\ UNCHANGED <<limits, fn, pages, timer, i, df, response, limit_log, clock, db, snap,
                   pages_log, events, log0, captures, calls>>

\* ------------------------------------------------------------- persisting
\* the table type a script stores the result of fetch function f under
TypeOf(f) ==
    CASE f = "get_user_profile"   -> "profile"
      [] f = "get_user_tweets"    -> "tweets"
      [] f = "get_user_following" -> "following"
      [] f = "get_user_followers" -> "followers"
      [] OTHER                    -> "query"

Capture(type, data, out, now) ==
    [type |-> type, raised |-> out.raised, recs |-> Recs(data.rows), ts |-> now,
     sorted |-> Recs(out.sorted)]

\* the sort is a deterministic procedure: the frame that was sorted before
\* comes out in the order it came out in then
SameSortAsBefore(data, out) ==
    \A k \in 1..Len(captures) :
        (~captures[k].raised /\ ~out.raised /\ captures[k].recs = Recs(data.rows))
            => captures[k].sorted = Recs(out.sorted)

\* the script calls df_to_db on the frame it holds; "likes" is a type
\* df_to_db does not know
Persist ==
    /\ pc = "done" /\ ~InSnapshot
    /\ result.status = "returned"
    /\ Len(captures) < MaxCaptures
    /\ \E type \in {TypeOf(fn), "likes"} :
          \E out \in df_to_db(db, held, type, clock) :
             /\ SameSortAsBefore(held, out)
             /\ db' = out.db
             /\ held' = out.data
             /\ clock' = IF out.raised THEN clock ELSE clock + 1
             /\ captures' = Append(captures, Capture(type, held, out, clock))
    /\ UNCHANGED <<pc, fn, pages, timer, i, df, response, limit_log, query_log,
                   result, limits, snap, pages_log, events, log0, calls>>

\* ------------------------------------------------------ get_user_snapshot
\* faulty variant: the accounts followed are fetched whatever the flags
RelationAlways(s) == "get_user_following"

\* the relationship fetch the flags select: `if kwargs.get("followers")`
\* comes first, `elif kwargs.get("following")` second
RelationFetch(s) ==
    IF s.followers THEN "get_user_following"
    ELSE IF s.following THEN "get_user_followers"
    ELSE ""

\* get_user_snapshot(username, followers=.., following=..) begins:
\* df = self.get_user_profile(username)
get_user_snapshot ==
    /\ pc = "ready"
    /\ \E fl \in BOOLEAN, fg \in BOOLEAN :
          snap' = [pc |-> "profile", followers |-> fl, following |-> fg, exc |-> ""]
    /\ Begin("get_user_profile", NoKwargs)
    /\ UNCHANGED <<limits, response, limit_log, query_log, clock, held, db, captures>>

\* an exception of a stage leaves get_user_snapshot
SnapshotRaises(e) ==
    /\ snap' = [snap EXCEPT !.pc = "raised", !.exc = e]
    /\ UNCHANGED <<pc, fn, pages, timer, i, df, response, limit_log, query_log,
                   clock, result, limits, held, db, pages_log, events, log0,
                   captures, calls>>

\* self.df_to_db(df["id"][0], frame, type) inside get_user_snapshot
SnapshotPersist(frame, type) ==
    \E out \in df_to_db(db, frame, type, clock) :
       /\ ~out.raised
       /\ db' = out.db
       /\ clock' = clock + 1
       /\ captures' = Append(captures, Capture(type, frame, out, clock))

\* the profile came back: persist it, then df2 = self.get_user_tweets(id);
\* df["id"] raises KeyError on a frame of errors
snapshot_profile_done ==
    /\ snap.pc = "profile" /\ pc = "done"
    /\ IF result.status = "raised" THEN SnapshotRaises(result.exc)
       ELSE IF result.table.kind # "data" THEN SnapshotRaises("KeyError")
       ELSE /\ SnapshotPersist(result.table, "profile")
            /\ snap' = [snap EXCEPT !.pc = "tweets"]
            /\ Begin("get_user_tweets", NoKwargs)
            /\ UNCHANGED <<limits, response, limit_log, query_log, held>>

\* the tweets came back: persist them, then the relationship fetch, if any
snapshot_tweets_done ==
    /\ snap.pc = "tweets" /\ pc = "done"
    /\ IF result.status = "raised" THEN SnapshotRaises(result.exc)
       ELSE /\ SnapshotPersist(result.table, "tweets")
            /\ UNCHANGED <<limits, response, limit_log, query_log, held>>
            /\ IF RelationFetch(snap) # ""
               THEN /\ snap' = [snap EXCEPT !.pc = "relation"]
                    /\ Begin(RelationFetch(snap), NoKwargs)
               ELSE /\ snap' = [snap EXCEPT !.pc = "returned"]
                    /\ UNCHANGED <<pc, fn, pages, timer, i, df, result, pages_log,
                                   events, log0, calls>>

\* the relationship table came back: persist it under its type
snapshot_relation_done ==
    /\ snap.pc = "relation" /\ pc = "done"
    /\ IF result.status = "raised" THEN SnapshotRaises(result.exc)
       ELSE /\ SnapshotPersist(result.table,
                   IF fn = "get_user_following" THEN "following" ELSE "followers")
            /\ snap' = [snap EXCEPT !.pc = "returned"]
            /\ UNCHANGED <<pc, fn, pages, timer, i, df, response, limit_log,
                           query_log, result, limits, held, pages_log, events,
                           log0, calls>>

\* ---------------------------------------------------------- specification
Next ==
    \/ Call
    \/ get_user_profile
    \/ get_user_tweets_loop
    \/ get_user_tweets_post
    \/ get_user_following_loop
    \/ get_user_following_post
    \/ get_user_followers_loop
    \/ get_user_followers_post
    \/ get_string_query_loop
    \/ get_string_query_post
    \/ Persist
    \/ get_user_snapshot
    \/ snapshot_profile_done
    \/ snapshot_tweets_done
    \/ snapshot_relation_done

Spec == Init /\ [][Next]_vars

\* ------------------------------- return_server_limits as a pure function
\* the rate-limit headers a server sends: 0 <= remaining <= limit <= MaxLimit
ValidHeaders == {<<r, l>> \in (0..MaxLimit) \X (0..MaxLimit) : r <= l}

InitLimits ==
    /\ pc = "ready"
    /\ fn = ""
    /\ pages = 0
    /\ timer = FALSE
    /\ i = 0
    /\ df = <<>>
    /\ response \in {WithHeaders([title |-> "", hasData |-> TRUE, data |-> <<>>,
                                  next_token |-> FALSE, errors |-> FALSE], h) :
                        h \in ValidHeaders}
    /\ limit_log = [e \in Endpoints |-> NoSnap]
    /\ query_log = <<>>
    /\ clock = 0
    /\ result = NoResult
    /\ limits = NoSnap
    /\ held = NoTable
    /\ db = [t \in Tables |-> <<>>]
    /\ snap = NoSnapshot
    /\ pages_log = <<>>
    /\ events = <<>>
    /\ log0 = [e \in Endpoints |-> NoSnap]
    /\ captures = <<>>
    /\ calls = <<>>

\* a direct call of self.return_server_limits() on the response in memory
return_server_limits_call ==
    /\ pc = "ready" /\ response.title # "NoResponse"
    /\ pc' = "done"
    /\ IF DivisionByZero(response.limit)
       THEN /\ result' = Raised("ZeroDivisionError")
            /\ limits' = limits
       ELSE /\ result' = Returned(NoTable)
            /\ limits' = return_server_limits(response)
    /\ UNCHANGED <<fn, pages, timer, i, df, response, limit_log, query_log, clock,
                   held, db, snap, pages_log, events, log0, captures, calls>>

NextLimits == return_server_limits_call

SpecLimits == InitLimits /\ [][NextLimits]_vars

\* ------------------------------------------------------------ properties
Done == pc = "done"

\* the page requests this call has issued
RequestCount == Len(SelectSeq(events, LAMBDA e : e = "request"))

\* the records of the pages received in this call, in arrival order
RECURSIVE Flatten(_)
Flatten(log) ==
    IF log = <<>> THEN <<>>
    ELSE Flatten(SubSeq(log, 1, Len(log) - 1)) \o log[Len(log)].data

Arrived == Flatten(pages_log)

\* response r carries the hard usage-cap signal
IsCapResponse(r) == r.title = "UsageCapExceeded"

CapSeen == \E k \in 1..Len(pages_log) : IsCapResponse(pages_log[k])

\* snapshot s holds the rate-limit headers of response r
SnapshotOf(s, r) ==
    /\ s.remaining = r.remaining
    /\ s.limit = r.limit
    /\ s.percent_remaining = percent_remaining(r.remaining, r.limit)
    /\ s.checked_at >= 0

\* C1: a fetch loop called with a page cap issues at most that many page
\* requests, and every response that was followed by another page request
\* carried a continuation cursor (after a response without one, no further
\* page is requested).
C1_PageCap ==
    fn \in Loops =>
        /\ RequestCount <= pages
        /\ RequestCount = Len(pages_log)
        /\ \A k \in 1..(Len(pages_log) - 1) : pages_log[k].next_token

\* C1 witness: a loop stopped by its page cap while the last response still
\* carried a cursor
C1_Witness ==
    /\ Done /\ fn \in Loops /\ result.status = "returned"
    /\ RequestCount = pages
    /\ pages_log[Len(pages_log)].next_token

CapOnFirstPage ==
    /\ Done /\ fn \in Loops
    /\ pages_log # <<>> /\ IsCapResponse(pages_log[1])

C4_EmptyFirstPage ==
    ( /\ Done /\ fn \in Loops /\ pages_log # <<>>
      /\ pages_log[1].title = "" /\ ~pages_log[1].hasData
      /\ ~pages_log[1].errors /\ ~pages_log[1].next_token
      /\ pages_log[1].limit > 0 )
        => /\ result.status = "returned"
           /\ result.table.rows = <<>>

\* C5: with a page cap above the number of pages there are, a response
\* without a cursor, or a later page without its data field, ends the loop
\* normally: the call returns and no exception reaches the caller.
C5_NormalExhaustion ==
    ( /\ Done /\ fn \in Loops /\ pages_log # <<>>
      /\ RequestCount < pages
      /\ ~CapSeen
      /\ \A k \in 1..Len(pages_log) : pages_log[k].limit > 0
      /\ pages_log[1].hasData
      /\ \/ ~pages_log[Len(pages_log)].next_token
         \/ Len(pages_log) >= 2 /\ ~pages_log[Len(pages_log)].hasData )
        => result.status = "returned"

\* C6: for rate-limit headers with limit > 0 the snapshot has
\* percent_remaining = floor(remaining / limit * 100), between 0 and 100,
\* and remaining <= limit.
C6_Percent ==
    (Done /\ result.status = "returned" /\ limits # NoSnap) =>
        /\ limits.percent_remaining = (limits.remaining * 100) \div limits.limit
        /\ 0 <= limits.percent_remaining /\ limits.percent_remaining <= 100
        /\ limits.remaining <= limits.limit

\* the last response was one whose snapshot the call went on to compute:
\* get_user_tweets raises on a usage cap on page 0, and the relationship
\* fetches on a page 0 without data, before they compute it
SnapshotAttempted ==
    /\ response.title # "NoResponse"
    /\ ~(fn = "get_user_tweets" /\ Len(pages_log) = 1
            /\ IsCapResponse(pages_log[1]))
    /\ ~(fn \in {"get_user_following", "get_user_followers"}
            /\ Len(pages_log) = 1 /\ ~pages_log[1].hasData)

\* C7: when the response a snapshot is computed from reports limit = 0, the
\* call raises ZeroDivisionError, returns nothing, and the rate-limit log
\* holds no snapshot of that response: the entry of the endpoint is what it
\* was before that response (after a second get_string_query page, the
\* snapshot of the first).
C7_ZeroLimit ==
    /\ \A e \in Endpoints : limit_log[e] # NoSnap => limit_log[e].limit > 0
    /\ (Done /\ response.limit = 0 /\ SnapshotAttempted) =>
          /\ result = Raised("ZeroDivisionError")
          /\ \A e \in Endpoints \ {"query"} : limit_log[e] = log0[e]
          /\ IF fn = "get_string_query" /\ Len(pages_log) >= 2
             THEN SnapshotOf(limit_log["query"], pages_log[Len(pages_log) - 1])
             ELSE limit_log["query"] = log0["query"]

\* C7 witness: the second page of get_string_query reported limit = 0
C7_Witness ==
    /\ Done /\ fn = "get_string_query" /\ Len(pages_log) = 2
    /\ response.limit = 0 /\ response.remaining = 0
    /\ result = Raised("ZeroDivisionError")

RECURSIVE RowsOf(_)
RowsOf(cs) ==
    IF cs = <<>> THEN 0 ELSE Len(cs[1].recs) + RowsOf(Tail(cs))

CapturesOf(t) == SelectSeq(captures, LAMBDA c : c.type = t)

\* C8: persistence is append-only: after any sequence of df_to_db calls for
\* one table, the table holds the rows of every capture, each under the
\* timestamp of its capture, and different captures have different
\* timestamps.
C8_AppendOnly ==
    \A t \in Tables :
        LET cs == CapturesOf(t)
        IN  /\ Len(db[t]) = RowsOf(cs)
            /\ \A a \in 1..Len(cs) : \A p \in 1..Len(cs[a].recs) :
                  \E q \in 1..Len(db[t]) :
                     /\ db[t][q].rec = cs[a].recs[p]
                     /\ db[t][q].capture_timestamp = cs[a].ts
            /\ \A a, b \in 1..Len(cs) : a # b => cs[a].ts # cs[b].ts

Called(f) == \E k \in 1..Len(calls) : calls[k] = f
Persisted(t) == \E k \in 1..Len(captures) : captures[k].type = t

\* C9: in get_user_snapshot, followers=True fetches the followers and
\* persists them to the followers table, and following=True fetches the
\* accounts followed and persists them to the following table (stated for a
\* call with exactly one of the two flags set).
C9_FlagsGather ==
    (snap.pc = "returned" /\ snap.followers # snap.following) =>
        /\ snap.followers =>
              Called("get_user_followers") /\ Persisted("followers")
        /\ snap.following =>
              Called("get_user_following") /\ Persisted("following")

\* C10: whenever a response received during a fetch loop, on page 0 or
\* later, carries the usage-cap signal, the loop ends by raising; it never
\* returns a table as on a normal exhaustion.
C10_CapRaises ==
    (Done /\ fn \in Loops /\ CapSeen) => result.status = "raised"

\* the next step of the loop requests the page after the one in response
NextPageDue ==
    /\ pc = "loop" /\ fn \in Loops /\ i > 0
    /\ response.next_token

SleepCount == Len(SelectSeq(events, LAMBDA e : e = "sleep"))

\* no sleep before the page-0 request, and a sleep between every two
\* consecutive page requests
SleepsBetweenRequests ==
    /\ events # <<>> => events[1] = "request"
    /\ \A k \in 1..(Len(events) - 1) :
          events[k] = "request" => events[k + 1] = "sleep"

\* C12 as stated: with timer=True a fetch loop suspends for 59 units between
\* every two consecutive page requests, and not before the page-0 request.
C12_Original ==
    (fn \in Loops /\ timer) => SleepsBetweenRequests

\* C12 amended: with timer=True, get_user_tweets, get_user_following and
\* get_user_followers suspend for 59 units between every two consecutive
\* page requests (once after each page collected) and not before the page-0
\* request; get_string_query takes no notice of the flag and never
\* suspends, and without the flag no loop suspends.
C12_Throttle ==
    fn \in Loops =>
        /\ (timer /\ fn # "get_string_query") =>
              /\ SleepsBetweenRequests
              /\ \A k \in 1..(Len(events) - 1) :
                    events[k] = "sleep" => events[k + 1] = "request"
        /\ (~timer \/ fn = "get_string_query") => SleepCount = 0
        /\ (~InSnapshot /\ captures = <<>>) =>
              clock = RequestCount + SleepSeconds * SleepCount

\* C12 witness: a throttled get_user_following fetched two pages and slept
\* between them
C12_Witness ==
    /\ Done /\ fn = "get_user_following" /\ timer
    /\ RequestCount = 2 /\ SleepCount >= 1
    /\ events[2] = "sleep" /\ events[3] = "request"
    /\ clock >= 2 + SleepSeconds

\* the relationship fetches begun, and the relationship tables persisted
RelationCalls ==
    Len(SelectSeq(calls, LAMBDA f :
            f \in {"get_user_following", "get_user_followers"}))
RelationCaptures ==
    Len(SelectSeq(captures, LAMBDA c : c.type \in {"following", "followers"}))

C14_CapEndsSnapshot ==
    (InSnapshot /\ CapSeen) =>
        /\ IsCapResponse(pages_log[Len(pages_log)])
        /\ ~Persisted(TypeOf(fn))
        /\ snap.pc # "returned"

\* C15: df_to_db persists the rows of a multi-page table returned by
\* get_user_following or get_user_followers in the order they have in that
\* table: within one capture every row of page i comes before every row of
\* page i+1.  (A record is <<page, position>>.  Stated for the pairs of
\* rows at different positions of their pages, whose index labels differ,
\* so that their order does not rest on how the sort treats equal labels.)
C15_PersistOrder ==
    \A t \in {"following", "followers"} :
        \A a, b \in 1..Len(db[t]) :
            ( /\ db[t][a].capture_timestamp = db[t][b].capture_timestamp
              /\ db[t][a].rec[1] < db[t][b].rec[1]
              /\ db[t][a].rec[2] # db[t][b].rec[2] )
                => a < b

====
